---- MODULE Spec2Model ----
(***************************************************************************)
(* Model of the stid / flexid identifier generator: Config, NewGenerator,  *)
(* Generator.Generate, encodeBaseN, generateRandomChars, validateAlphabet. *)
(*                                                                         *)
(* A Go string is a sequence of bytes (0..255).  len(s) and s[i] count and *)
(* index bytes; `for _, ch := range s` decodes UTF-8 runes.  Both views    *)
(* are modelled, because the generator uses both on the alphabet.          *)
(*                                                                         *)
(* A time.Time is modelled by its instant, an integer number of            *)
(* nanoseconds; UTC() changes the location only, never the instant.        *)
(* int64 / uint64 / time.Duration are modelled at a reduced width:         *)
(* MaxDuration stands for 1<<63 - 1 and WordBits for the 64 bits of        *)
(* uint64.                                                                 *)
(***************************************************************************)
EXTENDS Integers, Sequences, FiniteSets, TLC

(***************************************************************************)
(* Bounds of the model.                                                    *)
(***************************************************************************)
\* Width in bits of the model's uint64 (64 in the program).
WordBits == 8
\* Largest time.Duration of the model (1<<63 - 1 nanoseconds in the program).
MaxDuration == 5
\* Longest finite prefix of a random source.
MaxPrefix == 1
\* Longest alphabet of the unit specification, in bytes.
MaxBase == 258
\* Largest length passed to generateRandomChars in the unit specification.
MaxLength == 2
\* Number of Generate calls recorded per Generator.
MaxCalls == 2

\* No error, no value yet, a nil *Generator, no direct call yet.
NoErr == "nil"
None == "none"
NilGenerator == [nil |-> TRUE]
NoCall == [op |-> "none"]

Byte == 0..255

RECURSIVE Pow(_, _)
Pow(b, k) == IF k = 0 THEN 1 ELSE b * Pow(b, k - 1)

MaxUint64 == Pow(2, WordBits) - 1
MinDuration == -MaxDuration - 1

\* a..b as a byte string
Range(a, b) == [i \in 1..(b - a + 1) |-> a + i - 1]

(***************************************************************************)
(* Predefined alphabets.                                                   *)
(***************************************************************************)
Base62Alphabet == Range(48, 57) \o Range(65, 90) \o Range(97, 122)
Base36Alphabet == Range(48, 57) \o Range(97, 122)
Base16LowerAlphabet == Range(48, 57) \o Range(97, 102)
Base16UpperAlphabet == Range(48, 57) \o Range(65, 70)
Base64UrlAlphabet == Range(65, 90) \o Range(97, 122) \o Range(48, 57) \o <<45, 95>>
CrockfordBase32Alphabet ==
    Range(48, 57) \o Range(65, 72) \o <<74, 75, 77, 78>> \o Range(80, 84) \o Range(86, 90)
DefaultAlphabet == Base62Alphabet

(***************************************************************************)
(* Predefined tick sizes, in nanoseconds.                                  *)
(***************************************************************************)
Nanosecond == 1
Microsecond == 1000 * Nanosecond
Millisecond == 1000 * Microsecond

\* time.Unix(0, 0).UTC()
DefaultEpoch == 0

(***************************************************************************)
(* UTF-8, as Go's range loop over a string and string(byte) implement it.  *)
(***************************************************************************)
RuneError == 65533

\* The rune starting at byte i (1-based) of s, and its width in bytes.
DecodeRune(s, i) ==
    LET b0 == s[i]
        n == Len(s) - i + 1
        bad == [r |-> RuneError, w |-> 1]
        cont(b) == b >= 128 /\ b <= 191
    IN  IF b0 < 128 THEN [r |-> b0, w |-> 1]
        ELSE IF b0 < 194 \/ b0 > 244 THEN bad
        ELSE LET sz == IF b0 < 224 THEN 2 ELSE IF b0 < 240 THEN 3 ELSE 4
                 lo == IF b0 = 224 THEN 160 ELSE IF b0 = 240 THEN 144 ELSE 128
                 hi == IF b0 = 237 THEN 159 ELSE IF b0 = 244 THEN 143 ELSE 191
             IN  IF n < sz THEN bad
                 ELSE IF s[i + 1] < lo \/ s[i + 1] > hi THEN bad
                 ELSE IF sz = 2
                      THEN [r |-> (b0 % 32) * 64 + (s[i + 1] % 64), w |-> 2]
                 ELSE IF ~cont(s[i + 2]) THEN bad
                 ELSE IF sz = 3
                      THEN [r |-> (b0 % 16) * 4096 + (s[i + 1] % 64) * 64
                                  + (s[i + 2] % 64), w |-> 3]
                 ELSE IF ~cont(s[i + 3]) THEN bad
                 ELSE [r |-> (b0 % 8) * 262144 + (s[i + 1] % 64) * 4096
                             + (s[i + 2] % 64) * 64 + (s[i + 3] % 64), w |-> 4]

\* At most k runes of s from byte i on, and the index after them.
RECURSIVE RunesBlock(_, _, _)
RunesBlock(s, i, k) ==
    IF i > Len(s) \/ k = 0 THEN [rs |-> <<>>, next |-> i]
    ELSE LET d == DecodeRune(s, i)
             rest == RunesBlock(s, i + d.w, k - 1)
         IN  [rs |-> <<d.r>> \o rest.rs, next |-> rest.next]

RECURSIVE RunesFrom(_, _)
RunesFrom(s, i) ==
    IF i > Len(s) THEN <<>>
    ELSE LET b == RunesBlock(s, i, 16) IN b.rs \o RunesFrom(s, b.next)

\* The runes a range loop over s yields, in order.
Runes(s) == RunesFrom(s, 1)

\* string(b) for a byte b: the UTF-8 encoding of the code point b.
ByteToString(b) ==
    IF b < 128 THEN <<b>> ELSE <<192 + (b \div 64), 128 + (b % 64)>>

\* Go's string comparison: bytewise lexicographic.
RECURSIVE StrLess(_, _)
StrLess(a, b) ==
    IF b = <<>> THEN FALSE
    ELSE IF a = <<>> THEN TRUE
    ELSE IF a[1] # b[1] THEN a[1] < b[1]
    ELSE StrLess(Tail(a), Tail(b))

StrLeq(a, b) == a = b \/ StrLess(a, b)

(***************************************************************************)
(* Config and its defaults.  timeProvider and randomSource are             *)
(* capabilities of the environment: the record keeps their names, and      *)
(* Generate draws what they return during a call.                          *)
(***************************************************************************)
NewConfig ==
    [epoch |-> DefaultEpoch,
     tickSize |-> Millisecond,
     alphabet |-> DefaultAlphabet,
     numRandomChars |-> 5,
     randomSource |-> "rand.Reader",
     timeProvider |-> "time.Now"]

\* Mutant: WithEpoch also puts the tick size back to its default.
WithEpochResetTick(c, epoch) == [c EXCEPT !.epoch = epoch, !.tickSize = Millisecond]

\* Mutant: WithTickSize keeps a tick size that was already set.
WithTickSizeKeepFirst(c, tickSize) ==
    IF c.tickSize = Millisecond THEN [c EXCEPT !.tickSize = tickSize] ELSE c

WithEpoch(c, epoch) == [c EXCEPT !.epoch = epoch]
WithTickSize(c, tickSize) == [c EXCEPT !.tickSize = tickSize]
WithAlphabet(c, alphabet) == [c EXCEPT !.alphabet = alphabet]
WithNumRandomChars(c, n) == [c EXCEPT !.numRandomChars = n]
WithRandomSource(c, randomSource) == [c EXCEPT !.randomSource = randomSource]
WithTimeProvider(c, timeProvider) == [c EXCEPT !.timeProvider = timeProvider]

ErrAlphabetTooShort == "alphabet must contain at least 2 characters"
ErrNegativeRandomChars == "number of random characters cannot be negative"
ErrDuplicate == "alphabet contains duplicate character"
ErrBeforeEpoch == "current time is before the configured epoch"
ErrBuffer == "buffer size estimation failed in encodeBaseN"
ErrRead == "failed to read random bytes"

\* validateAlphabet: the range loop decodes runes; a rune seen twice is an error.
validateAlphabet(alphabet) ==
    LET rs == Runes(alphabet)
    IN  IF \E i, j \in 1..Len(rs) : i < j /\ rs[i] = rs[j] THEN ErrDuplicate ELSE NoErr

\* NewGenerator: the Generator (or nil) and the error.
NewGenerator(c) ==
    IF Len(c.alphabet) < 2 THEN [gen |-> NilGenerator, err |-> ErrAlphabetTooShort]
    ELSE IF c.numRandomChars < 0 THEN [gen |-> NilGenerator, err |-> ErrNegativeRandomChars]
    ELSE IF validateAlphabet(c.alphabet) # NoErr
         THEN [gen |-> NilGenerator, err |-> validateAlphabet(c.alphabet)]
    ELSE [gen |-> [config |-> c, base |-> Len(c.alphabet)], err |-> NoErr]

(***************************************************************************)
(* encodeBaseN                                                             *)
(***************************************************************************)
\* int(w / math.Log2(float64(base))): the largest k with base^k <= 2^w.
RECURSIVE LogQuotFrom(_, _, _, _)
LogQuotFrom(limit, base, p, k) ==
    IF p * base > limit THEN k ELSE LogQuotFrom(limit, base, p * base, k + 1)

LogQuot(w, base) == LogQuotFrom(Pow(2, w), base, 1, 0)

\* Mutant: the estimate without its margin of 2.
bufSizeNoMargin(g) == LogQuot(WordBits, g.base)

\* bufSize := int(64/math.Log2(float64(g.base))) + 2
bufSize(g) == LogQuot(WordBits, g.base) + 2

\* The loop `for number > 0`: buf holds the bytes written so far (buf[i+1:]),
\* i is the next index to write.
RECURSIVE encodeLoop(_, _, _, _)
encodeLoop(g, number, buf, i) ==
    IF number > 0
    THEN IF i < 0
         THEN [str |-> <<>>, err |-> ErrBuffer, i |-> i]
         ELSE encodeLoop(g, number \div g.base,
                         <<g.config.alphabet[(number % g.base) + 1]>> \o buf, i - 1)
    ELSE [str |-> buf, err |-> NoErr, i |-> i]

encodeBaseN(g, number) ==
    IF number = 0
    THEN [str |-> ByteToString(g.config.alphabet[1]), err |-> NoErr, i |-> bufSize(g) - 1]
    ELSE encodeLoop(g, number, <<>>, bufSize(g) - 1)

(***************************************************************************)
(* generateRandomChars                                                     *)
(*                                                                         *)
(* What an io.Reader supplies during a call: the bytes of prefix, then     *)
(* the byte tail for ever, or a read error when tail is EOF.               *)
(***************************************************************************)
EOF == -1

\* io.ReadFull(source, buf) with len(buf) = n.
ReadFull(src, n) ==
    LET have == Len(src.prefix)
    IN  IF have >= n
        THEN [err |-> NoErr, batch |-> SubSeq(src.prefix, 1, n), n |-> n,
              rest |-> [src EXCEPT !.prefix = SubSeq(src.prefix, n + 1, have)]]
        ELSE IF src.tail = EOF
        THEN [err |-> ErrRead, batch |-> <<>>, n |-> have,
              rest |-> [src EXCEPT !.prefix = <<>>]]
        ELSE [err |-> NoErr, batch |-> src.prefix \o [k \in 1..(n - have) |-> src.tail],
              n |-> n, rest |-> [src EXCEPT !.prefix = <<>>]]

\* Mutant: no byte is rejected.
maxValidByteNoReject(g) == 255

\* maxValidByte := byte((256/g.base)*g.base - 1)
maxValidByte(g) == ((256 \div g.base) * g.base - 1) % 256

\* if randomByte <= maxValidByte
acceptByte(g, randomByte) == randomByte <= maxValidByte(g)

\* int(randomByte)%g.base
indexOf(g, randomByte) == randomByte % g.base

\* g.config.alphabet[int(randomByte)%g.base]
charOf(g, randomByte) == g.config.alphabet[indexOf(g, randomByte) + 1]

\* Mutant: the scan of a batch does not stop when bytes is full.
RECURSIVE scanBatchNoBreak(_, _, _, _, _)
scanBatchNoBreak(g, length, batch, k, bytes) ==
    IF k > Len(batch) THEN bytes
    ELSE IF acceptByte(g, batch[k])
         THEN scanBatchNoBreak(g, length, batch, k + 1, Append(bytes, charOf(g, batch[k])))
         ELSE scanBatchNoBreak(g, length, batch, k + 1, bytes)

\* Mutant: each character drawn is written before the ones already drawn.
RECURSIVE scanBatchReversed(_, _, _, _, _)
scanBatchReversed(g, length, batch, k, bytes) ==
    IF k > Len(batch) THEN bytes
    ELSE IF acceptByte(g, batch[k])
         THEN LET more == <<charOf(g, batch[k])>> \o bytes
              IN  IF Len(more) = length THEN more
                  ELSE scanBatchReversed(g, length, batch, k + 1, more)
         ELSE scanBatchReversed(g, length, batch, k + 1, bytes)

\* for _, randomByte := range randomBytes { ... }: bytes after the batch from
\* position k on; the loop breaks when bytes is full.
RECURSIVE scanBatch(_, _, _, _, _)
scanBatch(g, length, batch, k, bytes) ==
    IF k > Len(batch) THEN bytes
    ELSE IF acceptByte(g, batch[k])
         THEN LET more == Append(bytes, charOf(g, batch[k]))
              IN  IF Len(more) = length THEN more
                  ELSE scanBatch(g, length, batch, k + 1, more)
         ELSE scanBatch(g, length, batch, k + 1, bytes)

\* The source has nothing left but rejected bytes, and never fails.
OnlyRejected(g, src) ==
    src.prefix = <<>> /\ src.tail # EOF /\ ~acceptByte(g, src.tail)

\* Mutant: the characters drawn before the failed read are returned.
readFailedPartial(bytes, err, read, reads) ==
    [returns |-> TRUE, str |-> bytes, err |-> err, read |-> read, reads |-> reads]

\* return "", errors.New("failed to read random bytes: " + err.Error()): the
\* characters already in bytes are dropped, and the loop is left.
readFailed(bytes, err, read, reads) ==
    [returns |-> TRUE, str |-> <<>>, err |-> err, read |-> read, reads |-> reads]

\* Mutant: the loop gives up after the batch it has read.
moreNeededNever(bytes, length) == FALSE

\* The loop condition i < length, i being the number of characters written.
moreNeeded(bytes, length) == Len(bytes) < length

\* for i := 0; i < length; { ReadFull; scan }.  returns is FALSE when the loop
\* never ends.  read counts the bytes taken from the source, reads the ReadFull calls.
RECURSIVE sampleLoop(_, _, _, _, _, _)
sampleLoop(g, length, src, bytes, read, reads) ==
    IF ~moreNeeded(bytes, length)
    THEN [returns |-> TRUE, str |-> bytes, err |-> NoErr, read |-> read, reads |-> reads]
    ELSE IF OnlyRejected(g, src)
    THEN [returns |-> FALSE, str |-> <<>>, err |-> NoErr, read |-> read, reads |-> reads]
    ELSE LET rf == ReadFull(src, length)
         IN  IF rf.err # NoErr
             THEN readFailed(bytes, rf.err, read + rf.n, reads + 1)
             ELSE sampleLoop(g, length, rf.rest,
                             scanBatch(g, length, rf.batch, 1, bytes),
                             read + rf.n, reads + 1)

generateRandomChars(g, length, src) ==
    IF length = 0
    THEN [returns |-> TRUE, str |-> <<>>, err |-> NoErr, read |-> 0, reads |-> 0]
    ELSE sampleLoop(g, length, src, <<>>, 0, 0)

(***************************************************************************)
(* Generate                                                                *)
(***************************************************************************)
\* time.Time.Sub: the difference, saturated at the largest / smallest Duration.
Sub(t, u) ==
    LET d == t - u
    IN  IF d > MaxDuration THEN MaxDuration
        ELSE IF d < MinDuration THEN MinDuration
        ELSE d

\* uint64(x)
ToUint64(x) == x % (MaxUint64 + 1)

\* Mutant: the elapsed time is multiplied by the tick size.
ticksOfTimes(g, now) == ToUint64(Sub(now, g.config.epoch) * g.config.tickSize)

\* ticks := uint64(delta.Nanoseconds() / int64(g.config.tickSize)), for delta >= 0
ticksOf(g, now) == ToUint64(Sub(now, g.config.epoch) \div g.config.tickSize)

NotComputed == -1

\* Mutant: the instant of the epoch itself counts as before the epoch.
beforeEpochInclusive(g, now) == now <= g.config.epoch

\* Mutant: the epoch is checked only when there is a time component.
beforeEpochIfTimed(g, now) == g.config.tickSize > 0 /\ now < g.config.epoch

\* now.Before(g.config.epoch)
beforeEpoch(g, now) == now < g.config.epoch

\* Mutant: the time segment built so far is returned with the error.
failedPartial(e, encodedTimestamp, rd, rds) ==
    [returns |-> TRUE, err |-> e, id |-> encodedTimestamp, ticks |-> NotComputed,
     timeSegment |-> <<>>, randomPart |-> <<>>, read |-> rd, reads |-> rds]

\* return "", err: whatever encodedTimestamp holds at that point is dropped.
failed(e, encodedTimestamp, rd, rds) ==
    [returns |-> TRUE, err |-> e, id |-> <<>>, ticks |-> NotComputed,
     timeSegment |-> <<>>, randomPart |-> <<>>, read |-> rd, reads |-> rds]

\* Mutant: the random source is read whatever numRandomChars is.
wantsRandomAlways(g) == TRUE

\* if g.config.numRandomChars > 0
wantsRandom(g) == g.config.numRandomChars > 0

\* Mutant: the random part is written before the time segment.
combineRandomFirst(encodedTimestamp, randomPart) == randomPart \o encodedTimestamp

\* sb.WriteString(encodedTimestamp); sb.WriteString(randomPart); sb.String()
combine(encodedTimestamp, randomPart) == encodedTimestamp \o randomPart

Generate(g, now, src) ==
    IF beforeEpoch(g, now) THEN failed(ErrBeforeEpoch, <<>>, 0, 0)
    ELSE LET timed == g.config.tickSize > 0
             ticks == IF timed THEN ticksOf(g, now) ELSE NotComputed
             enc == IF timed THEN encodeBaseN(g, ticks)
                    ELSE [str |-> <<>>, err |-> NoErr, i |-> 0]
         IN  IF enc.err # NoErr THEN failed(enc.err, <<>>, 0, 0)
             ELSE LET rc == IF wantsRandom(g)
                            THEN generateRandomChars(g, g.config.numRandomChars, src)
                            ELSE [returns |-> TRUE, str |-> <<>>, err |-> NoErr,
                                  read |-> 0, reads |-> 0]
                  IN  IF ~rc.returns
                      THEN [failed(NoErr, enc.str, rc.read, rc.reads)
                                EXCEPT !.returns = FALSE]
                      ELSE IF rc.err # NoErr
                      THEN failed(rc.err, enc.str, rc.read, rc.reads)
                      ELSE [returns |-> TRUE, err |-> NoErr,
                            id |-> combine(enc.str, rc.str), ticks |-> ticks,
                            timeSegment |-> enc.str, randomPart |-> rc.str,
                            read |-> rc.read, reads |-> rc.reads]

(***************************************************************************)
(* Inputs of the model.                                                    *)
(***************************************************************************)
SeqsUpTo(S, n) == UNION {[1..k -> S] : k \in 0..n}

\* "01"
BinaryAlphabet == <<48, 49>>
\* "ぁa": U+3041 (bytes E3 81 81) and the letter a
HiraganaAlphabet == <<227, 129, 129, 97>>
\* "Ã©": U+00C3 (bytes C3 83) and U+00A9 (bytes C2 A9)
LatinAlphabet == <<195, 131, 194, 169>>
\* "ぁ": one character of three bytes
OneRuneAlphabet == <<227, 129, 129>>
\* "abca" and "a"
DuplicateAlphabet == <<97, 98, 99, 97>>
ShortAlphabet == <<97>>

Alphabets ==
    {BinaryAlphabet, Base62Alphabet, HiraganaAlphabet, OneRuneAlphabet,
     DuplicateAlphabet, ShortAlphabet}

Epochs == {DefaultEpoch, DefaultEpoch + 1}
TickSizes == {0, 1, 2}
RandomCharCounts == {-1, 0, 2}

\* Configurations assembled from NewConfig() by the With* setters.
Configs ==
    {WithNumRandomChars(WithAlphabet(WithTickSize(WithEpoch(NewConfig, e), t), a), n) :
        e \in Epochs, t \in TickSizes, a \in Alphabets, n \in RandomCharCounts}

\* Instants the time provider returns.
Times == DefaultEpoch..(DefaultEpoch + 1 + MaxDuration + 1)

\* Bytes the random source supplies: 0 and 123 are accepted by every alphabet
\* of the model, 255 is rejected when 256 is no multiple of the base.
RandBytes == {0, 123, 255}

\* Sources exhausted after one batch of the longest length, whose bytes are
\* accepted by every alphabet (0) or rejected by some (255).
ExhaustedSources ==
    {[prefix |-> p, tail |-> EOF] : p \in [1..MaxLength -> {0, 255}]}

Sources ==
    {[prefix |-> p, tail |-> t] : p \in SeqsUpTo(RandBytes, MaxPrefix),
                                  t \in RandBytes \cup {EOF}}
        \cup ExhaustedSources

\* An alphabet of n bytes with no repeated rune: ASCII characters, then (for
\* n > 128) two-byte characters from U+0080 on.
MkAlphabet(n) ==
    LET a == IF n <= 128 THEN n ELSE IF (n - 128) % 2 = 0 THEN 128 ELSE 127
    IN  [i \in 1..n |->
            IF i <= a THEN i - 1
            ELSE LET m == i - a - 1
                     j == m \div 2
                 IN  IF m % 2 = 0 THEN 194 + (j \div 64) ELSE 128 + (j % 64)]

\* The configuration of Test_GenerateIds.
TestGenerateIdsConfig == WithTickSize(WithEpoch(NewConfig, DefaultEpoch + 1), 2)

\* Configurations of the unit specification: those above, also with a negative
\* tick size, one alphabet of every length up to MaxBase, and the test's.
UnitConfigs ==
    Configs \cup {WithTickSize(c, -1) : c \in Configs}
            \cup {WithAlphabet(NewConfig, MkAlphabet(n)) : n \in 2..MaxBase}
            \cup {WithAlphabet(NewConfig, a) :
                      a \in {Base62Alphabet, Base36Alphabet, Base16LowerAlphabet,
                             Base16UpperAlphabet, Base64UrlAlphabet,
                             CrockfordBase32Alphabet, LatinAlphabet}}
            \cup {TestGenerateIdsConfig}

\* Random sources of the calls recorded per Generator: one byte repeated for
\* ever, or a source that fails at once.
CallSources == {s \in Sources : s.prefix = <<>>}

(***************************************************************************)
(* State.                                                                  *)
(*   config  the Config handed to NewGenerator                             *)
(*   gen     the Generator NewGenerator returned, or NilGenerator          *)
(*   newErr  the error NewGenerator returned, None before the call         *)
(*   calls   the Generate calls made on gen, in order: the instant the     *)
(*           time provider returned and what Generate returned             *)
(*   unit    the last direct call of a method of gen, with its arguments   *)
(*           and result (unit specification)                               *)
(*   procs   the Generate calls in progress on gen, one per goroutine:     *)
(*           position in the code, local variables, and the number of      *)
(*           calls it has made of the time provider (timeReads) and of     *)
(*           io.ReadFull on the random source (randomReads) (concurrent    *)
(*           specification)                                                *)
(*   pkg     the package: whether init() has run, the package variable     *)
(*           defaultGenerator, and the panic that ended the program, if    *)
(*           any (package specification)                                   *)
(***************************************************************************)
VARIABLES config, gen, newErr, calls, unit, procs, pkg

vars == <<config, gen, newErr, calls, unit, procs, pkg>>

NoPanic == [message |-> "none", err |-> "none"]

\* The package before init() runs: var defaultGenerator *Generator is nil.
NotLoaded == [loaded |-> FALSE, defaultGenerator |-> NilGenerator, panic |-> NoPanic]

\* The goroutines that call Generate on one Generator.
Procs == {"a", "b"}

\* A call that has not started: its local variables as Generate declares them.
NotStarted ==
    [pc |-> "start", now |-> DefaultEpoch, encodedTimestamp |-> <<>>, bytes |-> <<>>,
     taken |-> <<>>, err |-> None, id |-> <<>>, timeReads |-> 0, randomReads |-> 0]

Init ==
    /\ config \in Configs
    /\ gen = NilGenerator
    /\ newErr = None
    /\ calls = <<>>
    /\ unit = NoCall
    /\ procs = [p \in Procs |-> NotStarted]
    /\ pkg = NotLoaded

DoNewGenerator ==
    /\ newErr = None
    /\ gen' = NewGenerator(config).gen
    /\ newErr' = NewGenerator(config).err
    /\ UNCHANGED <<config, calls, unit, procs, pkg>>

\* One call of gen.Generate(): the time provider returns now, the random
\* source supplies src.  A call that never returns has no next state.
DoGenerate(now, src) ==
    /\ gen # NilGenerator
    /\ Len(calls) < MaxCalls
    /\ LET r == Generate(gen, now, src)
       IN  /\ r.returns
           /\ calls' = Append(calls,
                  [now |-> now, err |-> r.err, id |-> r.id, ticks |-> r.ticks,
                   timeSegment |-> r.timeSegment, randomPart |-> r.randomPart])
    /\ UNCHANGED <<config, gen, newErr, unit, procs, pkg>>

Next ==
    \/ DoNewGenerator
    \/ \E now \in Times, src \in CallSources : DoGenerate(now, src)

Spec == Init /\ [][Next]_vars

(***************************************************************************)
(* Unit specification: a Generator as NewGenerator returns it, and one     *)
(* direct call of one of its methods, as the package's tests make them.    *)
(***************************************************************************)
UnitInit ==
    /\ config \in UnitConfigs
    /\ NewGenerator(config).err = NoErr
    /\ gen = NewGenerator(config).gen
    /\ newErr = NoErr
    /\ calls = <<>>
    /\ unit = NoCall
    /\ procs = [p \in Procs |-> NotStarted]
    /\ pkg = NotLoaded

CallEncodeBaseN(number) ==
    /\ unit = NoCall
    /\ unit' = [op |-> "encodeBaseN", number |-> number, res |-> encodeBaseN(gen, number)]
    /\ UNCHANGED <<config, gen, newErr, calls, procs, pkg>>

CallGenerateRandomChars(length, src) ==
    /\ unit = NoCall
    /\ LET r == generateRandomChars(gen, length, src)
       IN  /\ r.returns
           /\ unit' = [op |-> "generateRandomChars", length |-> length, src |-> src,
                       res |-> r]
    /\ UNCHANGED <<config, gen, newErr, calls, procs, pkg>>

\* One iteration of the loop over randomBytes, on one byte.
SampleByte(randomByte) ==
    /\ unit = NoCall
    /\ unit' = [op |-> "sampleByte", byte |-> randomByte,
                accepted |-> acceptByte(gen, randomByte),
                index |-> indexOf(gen, randomByte),
                bytes |-> scanBatch(gen, 1, <<randomByte>>, 1, <<>>)]
    /\ UNCHANGED <<config, gen, newErr, calls, procs, pkg>>

CallGenerate(now, src) ==
    /\ unit = NoCall
    /\ LET r == Generate(gen, now, src)
       IN  /\ r.returns
           /\ unit' = [op |-> "Generate", now |-> now, src |-> src, res |-> r]
    /\ UNCHANGED <<config, gen, newErr, calls, procs, pkg>>

UnitNext ==
    \/ \E number \in 0..MaxUint64 : CallEncodeBaseN(number)
    \/ \E length \in 0..MaxLength, src \in Sources : CallGenerateRandomChars(length, src)
    \/ \E randomByte \in Byte : SampleByte(randomByte)
    \/ \E now \in Times, src \in Sources : CallGenerate(now, src)

SpecUnit == UnitInit /\ [][UnitNext]_vars

(***************************************************************************)
(* Concurrent specification: the goroutines of Procs call Generate on one  *)
(* Generator, and their steps interleave.  A step is one statement group   *)
(* of Generate; each call has its own local variables, g is shared.  The   *)
(* time provider and the random source answer each call separately: now    *)
(* is the instant returned to the call, taken the bytes it has read.       *)
(***************************************************************************)
\* Largest number of batches one call reads.
MaxReads == 2

ConcConfigs ==
    {WithNumRandomChars(WithAlphabet(WithTickSize(WithEpoch(NewConfig, e), t),
                                     Base62Alphabet), n) :
        e \in Epochs, t \in {0, 1}, n \in {0, 2}}

ConcTimes == {DefaultEpoch, DefaultEpoch + 1}

\* Batches of length bytes a read of the random source returns.
Batches(length) == [1..length -> {0, 255}]

ConcBatches == UNION {Batches(c.numRandomChars) : c \in ConcConfigs}

ConcInit ==
    /\ config \in ConcConfigs
    /\ gen = NewGenerator(config).gen
    /\ newErr = NoErr
    /\ calls = <<>>
    /\ unit = NoCall
    /\ procs = [p \in Procs |-> NotStarted]
    /\ pkg = NotLoaded

\* Mutant: every call fills the buffer of goroutine "a".
bytesShared(ps, p) == ps["a"].bytes

\* bytes := make([]byte, length): the buffer of the call itself.
bytesOf(ps, p) == ps[p].bytes

\* now := g.config.timeProvider().UTC()
ReadTime(p, now) ==
    /\ procs[p].pc = "start"
    /\ procs' = [procs EXCEPT ![p].pc = "check", ![p].now = now, ![p].timeReads = @ + 1]
    /\ UNCHANGED <<config, gen, newErr, calls, unit, pkg>>

\* if now.Before(g.config.epoch) { return "", errors.New(...) }
CheckEpoch(p) ==
    /\ procs[p].pc = "check"
    /\ procs' = IF beforeEpoch(gen, procs[p].now)
                THEN [procs EXCEPT ![p].pc = "done", ![p].err = ErrBeforeEpoch]
                ELSE [procs EXCEPT ![p].pc = "encode"]
    /\ UNCHANGED <<config, gen, newErr, calls, unit, pkg>>

\* if g.config.tickSize > 0 { ... encodedTimestamp = encoded }
EncodeTime(p) ==
    /\ procs[p].pc = "encode"
    /\ LET enc == IF gen.config.tickSize > 0
                  THEN encodeBaseN(gen, ticksOf(gen, procs[p].now))
                  ELSE [str |-> <<>>, err |-> NoErr, i |-> 0]
       IN  procs' = IF enc.err # NoErr
                    THEN [procs EXCEPT ![p].pc = "done", ![p].err = enc.err]
                    ELSE [procs EXCEPT ![p].encodedTimestamp = enc.str,
                                       ![p].pc = IF wantsRandom(gen)
                                                 THEN "random" ELSE "combine"]
    /\ UNCHANGED <<config, gen, newErr, calls, unit, pkg>>

\* One iteration of the loop of generateRandomChars: a batch is read and scanned.
ReadBatch(p, batch) ==
    /\ procs[p].pc = "random"
    /\ Len(batch) = gen.config.numRandomChars
    /\ Len(procs[p].taken) < MaxReads * gen.config.numRandomChars
    /\ LET more == scanBatch(gen, gen.config.numRandomChars, batch, 1, bytesOf(procs, p))
       IN  procs' = [procs EXCEPT ![p].taken = @ \o batch,
                                  ![p].randomReads = @ + 1,
                                  ![p].bytes = more,
                                  ![p].pc = IF moreNeeded(more, gen.config.numRandomChars)
                                            THEN "random" ELSE "combine"]
    /\ UNCHANGED <<config, gen, newErr, calls, unit, pkg>>

\* io.ReadFull returns an error: return "", errors.New(...)
ReadFails(p) ==
    /\ procs[p].pc = "random"
    /\ procs' = [procs EXCEPT ![p].pc = "done", ![p].err = ErrRead,
                              ![p].randomReads = @ + 1]
    /\ UNCHANGED <<config, gen, newErr, calls, unit, pkg>>

\* sb.WriteString(encodedTimestamp); sb.WriteString(randomPart); return sb.String(), nil
Combine(p) ==
    /\ procs[p].pc = "combine"
    /\ procs' = [procs EXCEPT ![p].pc = "done", ![p].err = NoErr,
                              ![p].id = combine(procs[p].encodedTimestamp, procs[p].bytes)]
    /\ UNCHANGED <<config, gen, newErr, calls, unit, pkg>>

ConcNext ==
    \E p \in Procs :
        \/ \E now \in ConcTimes : ReadTime(p, now)
        \/ CheckEpoch(p)
        \/ EncodeTime(p)
        \/ \E batch \in ConcBatches : ReadBatch(p, batch)
        \/ ReadFails(p)
        \/ Combine(p)

SpecConc == ConcInit /\ [][ConcNext]_vars

(***************************************************************************)
(* Package specification: the package is loaded (init() builds the shared  *)
(* default Generator), then the program calls the package-level functions  *)
(* and the Must* variants.  A panic ends the program.                      *)
(***************************************************************************)
PanicInit == "stid: failed to initialize default generator: "
PanicNotInitialized == "stid: default generator not initialized"
PanicCreate == "stid: failed to create generator: "
PanicGenerate == "stid: failed to generate TID: "

\* Mutant: init() leaves defaultGenerator as declared.
initNoGenerator ==
    /\ ~pkg.loaded
    /\ pkg' = [pkg EXCEPT !.loaded = TRUE]
    /\ UNCHANGED <<config, gen, newErr, calls, unit, procs>>

\* func init(): defaultGenerator, err = NewGenerator(NewConfig()); panic on err.
init ==
    /\ ~pkg.loaded
    /\ LET r == NewGenerator(NewConfig)
       IN  pkg' = [loaded |-> TRUE,
                   defaultGenerator |-> r.gen,
                   panic |-> IF r.err # NoErr
                             THEN [message |-> PanicInit, err |-> r.err]
                             ELSE NoPanic]
    /\ UNCHANGED <<config, gen, newErr, calls, unit, procs>>

\* Mutant: MustNewGenerator returns what NewGenerator returned, error or not.
MustNewGeneratorNoPanic(c) ==
    [panic |-> NoPanic, generator |-> NewGenerator(c).gen]

\* func MustNewGenerator(config Config) *Generator
MustNewGenerator(c) ==
    LET r == NewGenerator(c)
    IN  IF r.err # NoErr
        THEN [panic |-> [message |-> PanicCreate, err |-> r.err],
              generator |-> NilGenerator]
        ELSE [panic |-> NoPanic, generator |-> r.gen]

\* func (g *Generator) MustGenerate() string
MustGenerate(g, now, src) ==
    LET r == Generate(g, now, src)
    IN  IF r.err # NoErr
        THEN [returns |-> r.returns,
              panic |-> [message |-> PanicGenerate, err |-> r.err], id |-> <<>>]
        ELSE [returns |-> r.returns, panic |-> NoPanic, id |-> r.id]

\* func Generate() (string, error), on the package variable defaultGenerator
PackageGenerate(dg, now, src) ==
    IF dg = NilGenerator
    THEN [returns |-> TRUE, panic |-> [message |-> PanicNotInitialized, err |-> None],
          err |-> None, id |-> <<>>]
    ELSE LET r == Generate(dg, now, src)
         IN  [returns |-> r.returns, panic |-> NoPanic, err |-> r.err, id |-> r.id]

\* func MustGenerate() string
PackageMustGenerate(dg, now, src) ==
    LET r == PackageGenerate(dg, now, src)
    IN  IF r.panic # NoPanic
        THEN [returns |-> r.returns, panic |-> r.panic, id |-> <<>>]
        ELSE IF r.err # NoErr
             THEN [returns |-> r.returns,
                   panic |-> [message |-> PanicGenerate, err |-> r.err], id |-> <<>>]
             ELSE [returns |-> r.returns, panic |-> NoPanic, id |-> r.id]

PkgInit ==
    /\ config \in Configs
    /\ gen = NilGenerator
    /\ newErr = None
    /\ calls = <<>>
    /\ unit = NoCall
    /\ procs = [p \in Procs |-> NotStarted]
    /\ pkg = NotLoaded

\* The program runs: the package is loaded and no panic has ended it.
Running == pkg.loaded /\ pkg.panic = NoPanic

CallMustNewGenerator ==
    /\ Running
    /\ unit = NoCall
    /\ LET m == MustNewGenerator(config)
       IN  /\ unit' = [op |-> "MustNewGenerator", config |-> config, res |-> m]
           /\ gen' = m.generator
           /\ pkg' = [pkg EXCEPT !.panic = m.panic]
    /\ UNCHANGED <<config, newErr, calls, procs>>

CallGeneratorMustGenerate(now, src) ==
    /\ Running
    /\ gen # NilGenerator
    /\ unit.op = "MustNewGenerator"
    /\ LET m == MustGenerate(gen, now, src)
       IN  /\ m.returns
           /\ unit' = [op |-> "Generator.MustGenerate", now |-> now, src |-> src, res |-> m]
           /\ pkg' = [pkg EXCEPT !.panic = m.panic]
    /\ UNCHANGED <<config, gen, newErr, calls, procs>>

CallPackageGenerate(now, src) ==
    /\ Running
    /\ unit.op \in {"none", "MustNewGenerator"}
    /\ LET r == PackageGenerate(pkg.defaultGenerator, now, src)
       IN  /\ r.returns
           /\ unit' = [op |-> "Generate", now |-> now, src |-> src, res |-> r]
           /\ pkg' = [pkg EXCEPT !.panic = r.panic]
    /\ UNCHANGED <<config, gen, newErr, calls, procs>>

CallPackageMustGenerate(now, src) ==
    /\ Running
    /\ unit.op \in {"none", "MustNewGenerator"}
    /\ LET m == PackageMustGenerate(pkg.defaultGenerator, now, src)
       IN  /\ m.returns
           /\ unit' = [op |-> "MustGenerate", now |-> now, src |-> src, res |-> m]
           /\ pkg' = [pkg EXCEPT !.panic = m.panic]
    /\ UNCHANGED <<config, gen, newErr, calls, procs>>

PkgNext ==
    \/ init
    \/ CallMustNewGenerator
    \/ \E now \in Times, src \in CallSources : CallGeneratorMustGenerate(now, src)
    \/ \E now \in Times, src \in CallSources : CallPackageGenerate(now, src)
    \/ \E now \in Times, src \in CallSources : CallPackageMustGenerate(now, src)

SpecPkg == PkgInit /\ [][PkgNext]_vars

(***************************************************************************)
(* Configuration specification: a Config value held by the program, the    *)
(* With* setters called on it, and a Generator built from it at some       *)
(* point.  The setters have value receivers: a call returns a new Config   *)
(* and the program may assign it to its variable.                          *)
(***************************************************************************)
Fields == {"epoch", "tickSize", "alphabet", "numRandomChars", "randomSource", "timeProvider"}

\* Values handed to each setter.
SetterValues(field) ==
    CASE field = "epoch" -> Epochs
      [] field = "tickSize" -> {Millisecond, Nanosecond}
      [] field = "alphabet" -> {Base62Alphabet, BinaryAlphabet}
      [] field = "numRandomChars" -> {5, 0}
      [] field = "randomSource" -> {"rand.Reader", "sameByteReader"}
      [] field = "timeProvider" -> {"time.Now", "mockTime"}

\* The call c.With<Field>(value).
ApplySetter(c, field, value) ==
    CASE field = "epoch" -> WithEpoch(c, value)
      [] field = "tickSize" -> WithTickSize(c, value)
      [] field = "alphabet" -> WithAlphabet(c, value)
      [] field = "numRandomChars" -> WithNumRandomChars(c, value)
      [] field = "randomSource" -> WithRandomSource(c, value)
      [] field = "timeProvider" -> WithTimeProvider(c, value)

ConfigInit ==
    /\ config = NewConfig
    /\ gen = NilGenerator
    /\ newErr = None
    /\ calls = <<>>
    /\ unit = NoCall
    /\ procs = [p \in Procs |-> NotStarted]
    /\ pkg = NotLoaded

\* c2 := config.With<Field>(value): the result is held in unit.
CallSetter(field, value) ==
    /\ unit' = [op |-> "With", field |-> field, value |-> value,
                receiver |-> config, res |-> ApplySetter(config, field, value)]
    /\ UNCHANGED <<config, gen, newErr, calls, procs, pkg>>

\* config = c2: the program keeps the Config the setter returned.
AssignResult ==
    /\ unit.op = "With"
    /\ config' = unit.res
    /\ unit' = NoCall
    /\ UNCHANGED <<gen, newErr, calls, procs, pkg>>

ConfigNext ==
    \/ \E field \in Fields : \E value \in SetterValues(field) : CallSetter(field, value)
    \/ AssignResult
    \/ DoNewGenerator

SpecConfig == ConfigInit /\ [][ConfigNext]_vars

(***************************************************************************)
(* Vocabulary of the properties.                                           *)
(***************************************************************************)
\* The characters of a string, and its bytes.
RuneSet(s) == {Runes(s)[k] : k \in 1..Len(Runes(s))}
ByteSet(s) == {s[k] : k \in 1..Len(s)}

\* floor((now - epoch) / tickSize), for now >= epoch and tickSize > 0.
ElapsedTicks(g, now) == (now - g.config.epoch) \div g.config.tickSize

\* The recorded calls that returned an identifier.
OkCalls == {i \in 1..Len(calls) : calls[i].err = NoErr}

\* gen is a Generator with a time component.
Timed == gen # NilGenerator /\ gen.config.tickSize > 0

\* The first n bytes a source supplies.
SourceBytes(src, n) ==
    [k \in 1..n |-> IF k <= Len(src.prefix) THEN src.prefix[k] ELSE src.tail]

\* The bytes of bs the sampler accepts, in order.
RECURSIVE Accepted(_, _)
Accepted(g, bs) ==
    IF bs = <<>> THEN <<>>
    ELSE IF acceptByte(g, bs[1]) THEN <<bs[1]>> \o Accepted(g, Tail(bs))
    ELSE Accepted(g, Tail(bs))

\* alphabet[b mod base] for the first n accepted bytes b among bs.
AcceptedImages(g, bs, n) ==
    LET acc == Accepted(g, bs)
    IN  [k \in 1..(IF n < Len(acc) THEN n ELSE Len(acc)) |->
            g.config.alphabet[(acc[k] % g.base) + 1]]

\* strings.IndexByte(alphabet, b), or -1
IndexByte(alphabet, b) ==
    IF \E k \in 1..Len(alphabet) : alphabet[k] = b
    THEN (CHOOSE k \in 1..Len(alphabet) :
              alphabet[k] = b /\ \A j \in 1..(k - 1) : alphabet[j] # b) - 1
    ELSE -1

\* The number a string denotes, most significant digit first, each byte
\* standing for its index in the alphabet; -1 when a byte is no digit.
RECURSIVE DecodeFrom(_, _, _)
DecodeFrom(g, str, acc) ==
    IF str = <<>> THEN acc
    ELSE LET d == IndexByte(g.config.alphabet, str[1])
         IN  IF d < 0 THEN -1 ELSE DecodeFrom(g, Tail(str), acc * g.base + d)

DecodeBaseN(g, str) == IF str = <<>> THEN -1 ELSE DecodeFrom(g, str, 0)

\* The number of base-N digits of a number.
RECURSIVE NumDigits(_, _)
NumDigits(number, base) ==
    IF number < base THEN 1 ELSE 1 + NumDigits(number \div base, base)

(***************************************************************************)
(* C1.  For every configuration NewGenerator accepts, every instant at or  *)
(* after the epoch and every random byte stream, every character of the    *)
(* identifier Generate returns is a character of the configured alphabet.  *)
(* A character is read as a rune or as a byte, whichever favours the       *)
(* statement.                                                              *)
(***************************************************************************)
C1_AlphabetFidelity ==
    gen # NilGenerator =>
        \A i \in OkCalls :
            \/ RuneSet(calls[i].id) \subseteq RuneSet(gen.config.alphabet)
            \/ ByteSet(calls[i].id) \subseteq ByteSet(gen.config.alphabet)

(***************************************************************************)
(* C2.  For a Generator with tickSize > 0, two successful Generate calls   *)
(* whose elapsed tick counts differ never return the same identifier.      *)
(***************************************************************************)
C2_NoCollisionAcrossTicks ==
    Timed =>
        \A i, j \in OkCalls :
            ElapsedTicks(gen, calls[i].now) # ElapsedTicks(gen, calls[j].now)
                => calls[i].id # calls[j].id

(***************************************************************************)
(* C3.  For a Generator with tickSize > 0, two identifiers generated at    *)
(* increasing instants more than one tick apart are in non-decreasing      *)
(* lexicographic order.                                                    *)
(***************************************************************************)
C3_Sortable ==
    (/\ Timed
     /\ Len(calls) = 2
     /\ OkCalls = {1, 2}
     /\ calls[2].now - calls[1].now > gen.config.tickSize)
        => StrLeq(calls[1].id, calls[2].id)

(***************************************************************************)
(* C4.  With tickSize > 0, Generate returns encodeBaseN(floor((now -       *)
(* epoch) / tickSize)) followed by numRandomChars characters               *)
(* alphabet[b mod base] of the accepted bytes b of the random source; in   *)
(* the configuration of Test_GenerateIds (tick 2, base62, the byte 123 for *)
(* ever) the instants 0..4 after the epoch give 0zzzzz, 0zzzzz, 1zzzzz,    *)
(* 1zzzzz, 2zzzzz.                                                         *)
(***************************************************************************)
C4_GenerateValue ==
    (unit.op = "Generate" /\ unit.res.err = NoErr /\ gen.config.tickSize > 0) =>
        /\ unit.res.id =
              encodeBaseN(gen, ElapsedTicks(gen, unit.now)).str
              \o AcceptedImages(gen, SourceBytes(unit.src, unit.res.read),
                                gen.config.numRandomChars)
        /\ Len(unit.res.randomPart) = gen.config.numRandomChars
        /\ (/\ config = TestGenerateIdsConfig
            /\ unit.src = [prefix |-> <<>>, tail |-> 123]
            /\ unit.now - gen.config.epoch <= 4)
              => unit.res.id =
                    <<48 + ((unit.now - gen.config.epoch) \div 2)>>
                    \o <<122, 122, 122, 122, 122>>

(***************************************************************************)
(* C5.  With tickSize > 0, two Generate calls in the same tick interval    *)
(* produce the same time segment, and a call in the next interval produces *)
(* a different one.                                                        *)
(***************************************************************************)
C5_TickQuantization ==
    (Timed /\ Len(calls) = 2 /\ OkCalls = {1, 2}) =>
        LET k1 == ElapsedTicks(gen, calls[1].now)
            k2 == ElapsedTicks(gen, calls[2].now)
        IN  /\ k1 = k2 => calls[1].timeSegment = calls[2].timeSegment
            /\ k2 = k1 + 1 => calls[1].timeSegment # calls[2].timeSegment

(***************************************************************************)
(* C6.  encodeBaseN(n) is the positional representation of n in base       *)
(* len(alphabet), most significant digit first: 0 is the single character  *)
(* alphabet[0]; n > 0 has no leading alphabet[0] and its digits decode     *)
(* back to n; 62 is "10" in base62, 255 is "ff" in hex, 10 is "1010" in    *)
(* binary.  The character alphabet[0] is read as the first byte or as the  *)
(* first rune of the alphabet, whichever favours the statement.            *)
(***************************************************************************)
C6_Positional ==
    (unit.op = "encodeBaseN" /\ unit.res.err = NoErr) =>
        /\ unit.number = 0 =>
              \/ unit.res.str = <<gen.config.alphabet[1]>>
              \/ Runes(unit.res.str) = <<Runes(gen.config.alphabet)[1]>>
        /\ unit.number > 0 =>
              /\ unit.res.str # <<>>
              /\ unit.res.str[1] # gen.config.alphabet[1]
              /\ DecodeBaseN(gen, unit.res.str) = unit.number
        /\ (gen.config.alphabet = Base62Alphabet /\ unit.number = 62)
              => unit.res.str = <<49, 48>>
        /\ (gen.config.alphabet = Base16LowerAlphabet /\ unit.number = 255)
              => unit.res.str = <<102, 102>>
        /\ (gen.config.alphabet = BinaryAlphabet /\ unit.number = 10)
              => unit.res.str = <<49, 48, 49, 48>>

(***************************************************************************)
(* C7.  encodeBaseN succeeds for every number of the uint64 range and      *)
(* every base >= 2: the buffer is never smaller than the digit count, the  *)
(* estimation error is not returned, and no digit is written below index 0 *)
(* of the buffer.                                                          *)
(***************************************************************************)
C7_EncodeSucceeds ==
    unit.op = "encodeBaseN" =>
        /\ unit.res.err = NoErr
        /\ NumDigits(unit.number, gen.base) <= bufSize(gen)
        /\ unit.res.i + 1 >= 0
        /\ unit.number > 0 => Len(unit.res.str) = NumDigits(unit.number, gen.base)

\* The largest number in base 2: as many digits as the word has bits.
C7_Witness ==
    /\ unit.op = "encodeBaseN"
    /\ unit.number = MaxUint64
    /\ gen.base = 2
    /\ unit.res.err = NoErr
    /\ Len(unit.res.str) = WordBits

(***************************************************************************)
(* C8.  For now >= epoch and tickSize > 0 the tick count Generate encodes  *)
(* is floor((now - epoch) / tickSize), also when the elapsed duration is   *)
(* larger than the largest Duration.                                       *)
(***************************************************************************)
C8_TickCount ==
    Timed => \A i \in OkCalls : calls[i].ticks = ElapsedTicks(gen, calls[i].now)

(***************************************************************************)
(* C9.  For every base in 2..256 the sampler accepts a byte iff it is at   *)
(* most floor(256/base)*base - 1, an accepted byte b selects alphabet      *)
(* index b mod base, and every index is selected by exactly                *)
(* floor(256/base) of the 256 byte values.                                 *)
(***************************************************************************)
C9_Unbiased ==
    (unit.op = "sampleByte" /\ gen.base \in 2..256) =>
        /\ unit.accepted <=> unit.byte <= (256 \div gen.base) * gen.base - 1
        /\ unit.index = unit.byte % gen.base
        /\ unit.bytes = IF unit.accepted
                        THEN <<gen.config.alphabet[(unit.byte % gen.base) + 1]>>
                        ELSE <<>>
        /\ Cardinality({b \in Byte : acceptByte(gen, b) /\ indexOf(gen, b) = unit.index})
              = 256 \div gen.base

\* Base62 rejects the byte 248, the first one above 4 * 62 - 1.
C9_Witness ==
    /\ unit.op = "sampleByte"
    /\ gen.base = 62
    /\ unit.byte = 248
    /\ ~unit.accepted
    /\ unit.bytes = <<>>

(***************************************************************************)
(* C10.  generateRandomChars(length) on success returns a string of        *)
(* exactly length characters (counted as the program and its tests count   *)
(* them, with len: one per byte drawn from the alphabet); for length 0 it  *)
(* returns the empty string and succeeds without reading a byte from the   *)
(* random source.                                                          *)
(***************************************************************************)
C10_RandomLength ==
    unit.op = "generateRandomChars" =>
        /\ unit.res.err = NoErr => Len(unit.res.str) = unit.length
        /\ unit.length = 0 =>
              /\ unit.res.str = <<>>
              /\ unit.res.err = NoErr
              /\ unit.res.read = 0
              /\ unit.res.reads = 0

\* Two characters from base62 when the first byte read is rejected: a second
\* batch is read, and the result still has two characters.
C10_Witness ==
    /\ unit.op = "generateRandomChars"
    /\ unit.length = 2
    /\ gen.base = 62
    /\ unit.src = [prefix |-> <<255>>, tail |-> 0]
    /\ unit.res.err = NoErr
    /\ unit.res.reads = 2
    /\ unit.res.str = <<48, 48>>

(***************************************************************************)
(* C11.  For every accepted alphabet and numRandomChars = n, every string  *)
(* of n alphabet characters is a possible random segment: every alphabet   *)
(* character is the image of a byte the sampler accepts, and a source      *)
(* supplying such bytes makes generateRandomChars return the string; the   *)
(* default configuration has 62^5 = 916,132,832 segments.  A character is  *)
(* one byte of the alphabet, as the sampler draws them.                    *)
(***************************************************************************)
\* The characters the sampler can produce from some byte.
ProducedBytes(g) == {charOf(g, b) : b \in {x \in Byte : acceptByte(g, x)}}

\* A source whose bytes are the first alphabet indices of the characters of w.
IndexSource(g, w) ==
    [prefix |-> [k \in 1..Len(w) |-> IndexByte(g.config.alphabet, w[k])], tail |-> EOF]

C11_EverySegmentPossible ==
    unit = NoCall =>
        LET n == gen.config.numRandomChars
            chars == ByteSet(gen.config.alphabet)
        IN  /\ chars \subseteq ProducedBytes(gen)
            /\ n <= MaxLength =>
                  \A w \in [1..n -> chars \cap ProducedBytes(gen)] :
                      generateRandomChars(gen, n, IndexSource(gen, w)).str = w
            /\ config = NewConfig =>
                  Pow(Cardinality(ProducedBytes(gen)), n) = 916132832

(***************************************************************************)
(* C12.  NewGenerator fails iff the alphabet has fewer than 2 characters,  *)
(* or a character occurs twice in it, or numRandomChars < 0; otherwise it  *)
(* returns a Generator holding the configuration, with base the length of  *)
(* the alphabet.  The characters of the alphabet are read as its runes or  *)
(* as its bytes, whichever favours the statement; "abca" is refused as a   *)
(* duplicate, "a" as too short.                                            *)
(***************************************************************************)
\* Some element occurs twice in the sequence.
HasRepeat(q) == \E i, j \in 1..Len(q) : i < j /\ q[i] = q[j]

\* The configuration is one the statement says is refused, its characters
\* being the elements of chars.
Refused(c, chars) == Len(chars) < 2 \/ HasRepeat(chars) \/ c.numRandomChars < 0

C12_NewGeneratorValidation ==
    newErr # None =>
        /\ \/ (newErr # NoErr) <=> Refused(config, Runes(config.alphabet))
           \/ (newErr # NoErr) <=> Refused(config, config.alphabet)
        /\ newErr # NoErr => gen = NilGenerator
        /\ newErr = NoErr =>
              gen = [config |-> config, base |-> Len(config.alphabet)]
        /\ (config.alphabet = DuplicateAlphabet /\ config.numRandomChars >= 0)
              => newErr = ErrDuplicate
        /\ config.alphabet = ShortAlphabet => newErr = ErrAlphabetTooShort

(***************************************************************************)
(* C13.  While the time source's now is before the epoch, Generate fails   *)
(* with the before-epoch error; from now == epoch on it does not, and it   *)
(* returns an identifier whenever the random source supplies its bytes;    *)
(* at now == epoch the tick count is 0.                                    *)
(***************************************************************************)
C13_EpochReached ==
    unit.op = "Generate" =>
        /\ unit.now < gen.config.epoch => unit.res.err = ErrBeforeEpoch
        /\ unit.now >= gen.config.epoch =>
              /\ unit.res.err \in {NoErr, ErrRead}
              /\ unit.src.tail # EOF => unit.res.err = NoErr
        /\ (unit.now = gen.config.epoch /\ gen.config.tickSize > 0
                /\ unit.res.err = NoErr)
              => unit.res.ticks = 0

\* A Generator whose epoch is not the default one, called at the epoch.
C13_Witness ==
    /\ unit.op = "Generate"
    /\ gen.config.epoch = DefaultEpoch + 1
    /\ unit.now = gen.config.epoch
    /\ gen.config.tickSize > 0
    /\ unit.res.err = NoErr
    /\ unit.res.ticks = 0

(***************************************************************************)
(* C14.  The epoch check does not depend on the time component: with       *)
(* tickSize == 0 and numRandomChars > 0, Generate before the epoch fails   *)
(* with the before-epoch error, returns no character and reads no random   *)
(* byte.                                                                   *)
(***************************************************************************)
C14_EpochCheckUnconditional ==
    (/\ unit.op = "Generate"
     /\ gen.config.tickSize = 0
     /\ gen.config.numRandomChars > 0
     /\ unit.now < gen.config.epoch)
        => /\ unit.res.err = ErrBeforeEpoch
           /\ unit.res.id = <<>>
           /\ unit.res.randomPart = <<>>
           /\ unit.res.read = 0

\* No time component, two random characters wanted, a source that would
\* supply them, and a call before the epoch.
C14_Witness ==
    /\ unit.op = "Generate"
    /\ gen.config.tickSize = 0
    /\ gen.config.numRandomChars = 2
    /\ unit.src = [prefix |-> <<>>, tail |-> 123]
    /\ unit.now < gen.config.epoch
    /\ unit.res.err = ErrBeforeEpoch
    /\ unit.res.id = <<>>

(***************************************************************************)
(* C15.  In every identifier Generate returns, the time segment is empty   *)
(* iff tickSize == 0 and the random segment is empty iff numRandomChars == *)
(* 0; with tickSize == 0 the identifier is exactly numRandomChars random   *)
(* characters.                                                             *)
(***************************************************************************)
C15_SegmentsPresent ==
    (unit.op = "Generate" /\ unit.res.err = NoErr) =>
        /\ unit.res.timeSegment = <<>> <=> gen.config.tickSize = 0
        /\ unit.res.randomPart = <<>> <=> gen.config.numRandomChars = 0
        /\ gen.config.tickSize = 0 =>
              /\ unit.res.id = unit.res.randomPart
              /\ Len(unit.res.id) = gen.config.numRandomChars

(***************************************************************************)
(* C16.  generateRandomChars and Generate fail iff the random source is    *)
(* exhausted at a read they need; they fail at that read, return the empty *)
(* string (the characters drawn from earlier batches are dropped) and do   *)
(* not read again: the failed read is the one after the last full batch.   *)
(***************************************************************************)
\* The full batches of length bytes the source can supply before it fails.
FullBatches(src, length) ==
    SubSeq(src.prefix, 1, (Len(src.prefix) \div length) * length)

\* The source fails before it has supplied length accepted bytes.
Starved(g, length, src) ==
    /\ length > 0
    /\ src.tail = EOF
    /\ Len(Accepted(g, FullBatches(src, length))) < length

ReadFailure(g, length, src, err, str, read, reads) ==
    /\ err # NoErr <=> Starved(g, length, src)
    /\ err # NoErr =>
          /\ err = ErrRead
          /\ str = <<>>
          /\ read = Len(src.prefix)
          /\ reads = (Len(src.prefix) \div length) + 1

C16_ReadFailure ==
    /\ unit.op = "generateRandomChars" =>
          ReadFailure(gen, unit.length, unit.src, unit.res.err, unit.res.str,
                      unit.res.read, unit.res.reads)
    /\ (unit.op = "Generate" /\ unit.now >= gen.config.epoch) =>
          ReadFailure(gen, gen.config.numRandomChars, unit.src, unit.res.err,
                      unit.res.id, unit.res.read, unit.res.reads)

\* Base62, two characters wanted: the first batch holds one accepted and one
\* rejected byte, the second read fails, and the character drawn is dropped.
C16_Witness ==
    /\ unit.op = "generateRandomChars"
    /\ gen.base = 62
    /\ unit.length = 2
    /\ unit.src = [prefix |-> <<0, 255>>, tail |-> EOF]
    /\ unit.res.err = ErrRead
    /\ unit.res.str = <<>>
    /\ unit.res.reads = 2

(***************************************************************************)
(* C17.  Whenever Generate returns an error (epoch not reached, encoder    *)
(* failure, random source failure) the identifier it returns is the empty  *)
(* string, never the time segment alone or a truncated identifier.         *)
(***************************************************************************)
C17_NoPartialIdentifier ==
    \A i \in 1..Len(calls) :
        /\ calls[i].err # NoErr =>
              /\ calls[i].id = <<>>
              /\ calls[i].err \in {ErrBeforeEpoch, ErrBuffer, ErrRead}
        /\ calls[i].err = NoErr =>
              calls[i].id = calls[i].timeSegment \o calls[i].randomPart

\* The random source fails after the time segment has been encoded.
C17_Witness ==
    /\ Timed
    /\ Len(calls) >= 1
    /\ calls[1].now >= gen.config.epoch
    /\ calls[1].err = ErrRead
    /\ calls[1].id = <<>>

(***************************************************************************)
(* C18.  Generate never modifies the Generator, and under any interleaving *)
(* of concurrent Generate calls on one Generator every call returns what   *)
(* it returns when run alone with the instant it observed and the random   *)
(* bytes it read.                                                          *)
(***************************************************************************)
\* Generate run alone at the instant the call observed, on a source that
\* supplies the bytes the call read and then fails.
Alone(p) == Generate(gen, procs[p].now, [prefix |-> procs[p].taken, tail |-> EOF])

C18_ConcurrentCalls ==
    /\ gen = [config |-> config, base |-> Len(config.alphabet)]
    /\ \A p \in Procs :
          procs[p].pc = "done" =>
              /\ procs[p].err = Alone(p).err
              /\ procs[p].id = Alone(p).id

\* Goroutine "a" is in the middle of its random segment, one character drawn,
\* when goroutine "b" returns an identifier of its own.
C18_Witness ==
    /\ procs["a"].pc = "random"
    /\ Len(procs["a"].bytes) = 1
    /\ procs["b"].pc = "done"
    /\ procs["b"].err = NoErr
    /\ procs["b"].taken = <<0, 255, 255, 0>>
    /\ procs["b"].id = procs["b"].encodedTimestamp \o <<48, 48>>

(***************************************************************************)
(* C19.  With numRandomChars = 0 and a time component, the identifier is   *)
(* the time segment alone: two identifiers of one Generator generated in   *)
(* the same tick are byte-identical, and an identifier generated in a      *)
(* later tick differs from them.                                           *)
(***************************************************************************)
C19_TimeOnlyIdentifier ==
    (/\ Timed
     /\ gen.config.numRandomChars = 0
     /\ Len(calls) = 2
     /\ OkCalls = {1, 2})
        => LET k1 == ElapsedTicks(gen, calls[1].now)
               k2 == ElapsedTicks(gen, calls[2].now)
           IN  /\ calls[1].id = calls[1].timeSegment
               /\ calls[2].id = calls[2].timeSegment
               /\ k1 = k2 => calls[1].id = calls[2].id
               /\ k1 < k2 => calls[1].id # calls[2].id

(***************************************************************************)
(* C20.  Holding epoch, alphabet, now and random length fixed, a smaller   *)
(* tick size yields a longer time segment than a larger one.               *)
(***************************************************************************)
\* The tick sizes larger than the Generator's.
LargerTickSizes == {c.tickSize : c \in {d \in UnitConfigs : d.tickSize > gen.config.tickSize}}

\* What Generate returns for the same call when only the tick size differs.
WithTickSizeInstead(t) ==
    Generate(NewGenerator(WithTickSize(config, t)).gen, unit.now, unit.src)

\* A Generate call that returned a time segment.
TimedCall == unit.op = "Generate" /\ unit.res.err = NoErr /\ gen.config.tickSize > 0

C21_DefaultConfig ==
    /\ NewConfig.epoch = 0
    /\ NewConfig.tickSize = 1000000
    /\ NewConfig.alphabet = Range(48, 57) \o Range(65, 90) \o Range(97, 122)
    /\ Len(NewConfig.alphabet) = 62
    /\ NewConfig.numRandomChars = 5
    /\ NewGenerator(NewConfig).err = NoErr
    /\ pkg.loaded => /\ pkg.defaultGenerator # NilGenerator
                     /\ pkg.defaultGenerator.config = NewConfig
    /\ pkg.panic.message \notin {PanicInit, PanicNotInitialized}

\* The package-level Generate returned an identifier of the default Generator.
C21_Witness ==
    /\ pkg.loaded
    /\ unit.op = "Generate"
    /\ unit.res.err = NoErr
    /\ Len(unit.res.id) = 6

(***************************************************************************)
(* C22.  MustNewGenerator, Generator.MustGenerate and the package-level    *)
(* MustGenerate panic exactly when NewGenerator, Generator.Generate or the *)
(* package-level Generate returns an error on the same inputs, with the    *)
(* error in the panic; otherwise they return the value that call returns.  *)
(***************************************************************************)
C22_MustVariants ==
    /\ unit.op = "MustNewGenerator" =>
          LET r == NewGenerator(unit.config)
          IN  /\ (unit.res.panic # NoPanic) <=> (r.err # NoErr)
              /\ r.err # NoErr =>
                    unit.res.panic = [message |-> PanicCreate, err |-> r.err]
              /\ r.err = NoErr => unit.res.generator = r.gen /\ gen = r.gen
              /\ pkg.panic = unit.res.panic
    /\ unit.op = "Generator.MustGenerate" =>
          LET r == Generate(gen, unit.now, unit.src)
          IN  /\ (unit.res.panic # NoPanic) <=> (r.err # NoErr)
              /\ r.err # NoErr =>
                    unit.res.panic = [message |-> PanicGenerate, err |-> r.err]
              /\ r.err = NoErr => unit.res.id = r.id
              /\ pkg.panic = unit.res.panic
    /\ unit.op = "MustGenerate" =>
          LET r == PackageGenerate(pkg.defaultGenerator, unit.now, unit.src)
          IN  /\ (unit.res.panic # NoPanic) <=> (r.err # NoErr)
              /\ r.err # NoErr =>
                    unit.res.panic = [message |-> PanicGenerate, err |-> r.err]
              /\ r.err = NoErr => unit.res.id = r.id
              /\ pkg.panic = unit.res.panic

\* Generator.MustGenerate panicked because the instant was before the epoch.
C22_Witness ==
    /\ unit.op = "Generator.MustGenerate"
    /\ unit.res.panic = [message |-> PanicGenerate, err |-> ErrBeforeEpoch]
    /\ pkg.panic # NoPanic

(***************************************************************************)
(* C23.  A call of a With* setter returns a Config that holds the given    *)
(* value in the setter's field and the receiver's value in every other     *)
(* field; the call changes neither the receiver nor a Generator that was   *)
(* built before it.                                                        *)
(***************************************************************************)
C23_SetterIsolation ==
    [][(unit'.op = "With" /\ unit' # unit) =>
          /\ config' = config
          /\ gen' = gen
          /\ unit'.receiver = config
          /\ \A f \in Fields :
                unit'.res[f] = IF f = unit'.field THEN unit'.value ELSE config[f]]_vars

\* A setter returned a Config that differs from the receiver, from which a
\* Generator had been built.
C23_Witness ==
    /\ unit.op = "With"
    /\ unit.res # config
    /\ gen # NilGenerator
    /\ gen.config = config

(***************************************************************************)
(* C24.  Setters of distinct fields commute: after a setter call, applying *)
(* a setter of another field to the result gives the Config that the two   *)
(* calls give in the other order.  Applying the setter of the same field   *)
(* again keeps only the value of the last call.                            *)
(***************************************************************************)
C24_OrderIndependent ==
    unit.op = "With" =>
        \A f2 \in Fields : \A v2 \in SetterValues(f2) :
            IF f2 # unit.field
            THEN ApplySetter(unit.res, f2, v2)
                    = ApplySetter(ApplySetter(unit.receiver, f2, v2), unit.field, unit.value)
            ELSE /\ ApplySetter(unit.res, f2, v2) = ApplySetter(unit.receiver, f2, v2)
                 /\ ApplySetter(unit.res, f2, v2)[f2] = v2

\* The tick size was set a second time, to another value, after other setters.
C24_Witness ==
    /\ unit.op = "With"
    /\ unit.field = "tickSize"
    /\ unit.receiver.tickSize # Millisecond
    /\ unit.value # unit.receiver.tickSize
    /\ unit.receiver.numRandomChars # 5

(***************************************************************************)
(* C25.  The base cached by NewGenerator is the number of characters of    *)
(* the alphabet, and every digit value below the base indexes one whole    *)
(* character of the alphabet, a different one for each digit; multi-byte   *)
(* characters included.                                                    *)
(***************************************************************************)
C25_BaseCountsCharacters ==
    newErr = NoErr =>
        /\ gen.base = Len(Runes(config.alphabet))
        /\ \A d \in 0..(gen.base - 1) :
              /\ Len(Runes(<<config.alphabet[d + 1]>>)) = 1
              /\ Runes(<<config.alphabet[d + 1]>>)[1] \in RuneSet(config.alphabet)
        /\ \A d, e \in 0..(gen.base - 1) :
              d # e => config.alphabet[d + 1] # config.alphabet[e + 1]

\* number is base^k for some k >= 1.
RECURSIVE IsPowerOf(_, _)
IsPowerOf(number, base) ==
    \/ number = base
    \/ number > base /\ number % base = 0 /\ IsPowerOf(number \div base, base)

\* The time segment of tick count n has as many characters as n has digits,
\* is never shorter than that of n - 1, and is longer, by one, exactly when n
\* is a power of the base; SegmentLength(n) counts the characters.
LengthFollowsDigits(g, SegmentLength(_)) ==
    \A n \in 0..MaxUint64 :
        /\ SegmentLength(n) = NumDigits(n, g.base)
        /\ n > 0 => /\ SegmentLength(n) >= SegmentLength(n - 1)
                    /\ SegmentLength(n) <= SegmentLength(n - 1) + 1
                    /\ (SegmentLength(n) = SegmentLength(n - 1) + 1) <=> IsPowerOf(n, g.base)

(***************************************************************************)
(* C26.  With a tick size above zero the time segment is the encoding of   *)
(* the number of ticks elapsed since the epoch, without padding: it has as *)
(* many characters as that number has base-N digits, so over increasing    *)
(* tick counts its length never decreases and grows by one exactly at the  *)
(* powers of the base.  Characters are counted as bytes or as runes,       *)
(* whichever favours the claim, the same way for all tick counts.          *)
(***************************************************************************)
C26_TimeSegmentLength ==
    gen.config.tickSize > 0 =>
        /\ unit = NoCall =>
              LET ByteLength(n) == Len(encodeBaseN(gen, n).str)
                  RuneLength(n) == Len(Runes(encodeBaseN(gen, n).str))
              IN  \/ LengthFollowsDigits(gen, ByteLength)
                  \/ LengthFollowsDigits(gen, RuneLength)
        /\ (unit.op = "Generate" /\ unit.res.err = NoErr) =>
              unit.res.timeSegment = encodeBaseN(gen, ElapsedTicks(gen, unit.now)).str

\* The bytes of the alphabet are in strictly increasing order.
Increasing(alphabet) == \A k \in 1..(Len(alphabet) - 1) : alphabet[k] < alphabet[k + 1]

BeforeLastBatch(p) ==
    SubSeq(procs[p].taken, 1, Len(procs[p].taken) - gen.config.numRandomChars)

(***************************************************************************)
(* C28.  A call of generateRandomChars(length), length > 0, is in its loop *)
(* exactly as long as the random source has supplied fewer than length     *)
(* accepted bytes and no read has failed: it leaves the loop with the      *)
(* batch that supplies the length-th accepted byte and reads no batch      *)
(* after it, and it stays in the loop, reading batch after batch, while    *)
(* every byte supplied is rejected.                                        *)
(***************************************************************************)
C28_LoopUntilSupplied ==
    gen.config.numRandomChars > 0 =>
        \A p \in Procs :
            LET accepted == Len(Accepted(gen, procs[p].taken))
            IN  /\ procs[p].pc = "random" => accepted < gen.config.numRandomChars
                /\ (procs[p].taken # <<>> /\ accepted < gen.config.numRandomChars)
                      => procs[p].pc = "random" \/ procs[p].err = ErrRead
                /\ accepted >= gen.config.numRandomChars =>
                      /\ procs[p].pc \in {"combine", "done"}
                      /\ Len(procs[p].bytes) = gen.config.numRandomChars
                      /\ Len(Accepted(gen, BeforeLastBatch(p))) < gen.config.numRandomChars

\* A call has read MaxReads batches of rejected bytes and is still in the loop.
C28_Witness ==
    /\ gen.config.numRandomChars > 0
    /\ procs["a"].pc = "random"
    /\ Len(procs["a"].taken) = MaxReads * gen.config.numRandomChars
    /\ \A k \in 1..Len(procs["a"].taken) : ~acceptByte(gen, procs["a"].taken[k])

(***************************************************************************)
(* C29.  A successful generateRandomChars(length), length > 0, has taken   *)
(* a whole number of batches of length bytes from the random source, the   *)
(* last of them needed; its result is alphabet[b mod base] for the first   *)
(* length accepted bytes b of what it took, in the order of the stream,    *)
(* with rejected bytes left out; what the last batch holds after the       *)
(* length-th accepted byte is taken from the source and not used.          *)
(***************************************************************************)
C29_StreamOrder ==
    (unit.op = "generateRandomChars" /\ unit.length > 0 /\ unit.res.err = NoErr) =>
        LET taken == SourceBytes(unit.src, unit.res.read)
        IN  /\ unit.res.reads >= 1
            /\ unit.res.read = unit.res.reads * unit.length
            /\ Len(Accepted(gen, taken)) >= unit.length
            /\ Len(Accepted(gen, SubSeq(taken, 1, unit.res.read - unit.length)))
                  < unit.length
            /\ unit.res.str = AcceptedImages(gen, taken, unit.length)
            /\ \A k \in 1..unit.length :
                  unit.res.str[k]
                      = gen.config.alphabet[(Accepted(gen, taken)[k] % gen.base) + 1]

\* Base 62, two characters, the source supplies 255 and then 123 for ever: the
\* first batch holds one accepted byte, the second two, of which one is used.
C29_Witness ==
    /\ unit.op = "generateRandomChars"
    /\ unit.length = 2
    /\ gen.base = 62
    /\ unit.src = [prefix |-> <<255>>, tail |-> 123]
    /\ unit.res.err = NoErr
    /\ unit.res.read = 4
    /\ Len(Accepted(gen, SourceBytes(unit.src, unit.res.read))) = 3
    /\ unit.res.str = <<122, 122>>

(***************************************************************************)
(* C30.  A Generate call calls the time provider once, as its first step:  *)
(* before that call it has read nothing from the random source, and after  *)
(* it the count stays one.  A call that fails the epoch check, and every   *)
(* call when numRandomChars is 0, never reads the random source.           *)
(***************************************************************************)
C30_ReadOrder ==
    \A p \in Procs :
        /\ procs[p].timeReads = (IF procs[p].pc = "start" THEN 0 ELSE 1)
        /\ procs[p].timeReads = 0 => procs[p].randomReads = 0 /\ procs[p].taken = <<>>
        /\ procs[p].randomReads = 0 => procs[p].taken = <<>>
        /\ procs[p].err = ErrBeforeEpoch =>
              procs[p].randomReads = 0 /\ procs[p].taken = <<>>
        /\ gen.config.numRandomChars = 0 =>
              procs[p].randomReads = 0 /\ procs[p].taken = <<>>

\* One call failed the epoch check and one returned with numRandomChars = 0,
\* neither having read the random source after its one reading of the time.
C30_Witness ==
    /\ gen.config.numRandomChars = 0
    /\ procs["a"].pc = "done" /\ procs["a"].err = ErrBeforeEpoch
    /\ procs["b"].pc = "done" /\ procs["b"].err = NoErr
    /\ \A p \in Procs : procs[p].timeReads = 1 /\ procs[p].randomReads = 0

====
